---- MODULE Spec2Model ----
(***************************************************************************)
(* Verification model of the documentation site's view logic:              *)
(*   - DocCardList        (src/src/theme/DocCardList/index.tsx), with the  *)
(*                         DocCard it renders (src/unnamed/part_000) and   *)
(*                         the RadioCards it selects with (part_001)       *)
(*   - VersionSelector    (src/src/components/VersionSelector/index.tsx,   *)
(*                         and its two other revisions, src/unnamed/       *)
(*                         part_006 and part_007)                          *)
(*   - RadioCards         (src/unnamed/part_001), on its own               *)
(*   - GitHubStar         (src/unnamed/part_004) and its formatStars       *)
(* Strings that the code inspects character by character (URL paths) are   *)
(* sequences of tokens; strings it only compares (tags, version ids) are   *)
(* TLA+ strings.                                                           *)
(***************************************************************************)
EXTENDS Integers, Sequences, FiniteSets, TLC

VARIABLES
    \* DocCardList
    items,          \* props.items: the entry list handed in by the sidebar
    selectedTag,    \* useState<string | null>: Null or Some(tag)
    lastValue,      \* value of the RadioCards item chosen last, "none" at first
    \* path rewriter applied as a pure function
    rwHist,         \* <<p, R(p,t1), R(R(p,t1),t2), ...>>
    rwTrail,        \* <<t1, t2, ...>> the target versions applied so far
    \* VersionSelector
    variant,        \* which revision of the component is mounted
    pathname,       \* location.pathname
    currentVersion, \* useState<string>('v0')
    isOpen,         \* useState(false)
    effectPending,  \* the detection effect has not run yet for this pathname
    navRequest,     \* window.location.href assignment not yet carried out
    focus,          \* where the keyboard focus is: the trigger or elsewhere
    \* the user event the component handled last ("none" in the fields that
    \* the event does not have)
    lastKey,        \* event.key of the keydown given to handleKeyDown
    newValue,       \* handleKeyDown's local newValue, for an arrow key
    clicked,        \* value of the option element that was clicked
    mouseTarget,    \* where the mousedown given to handleClickOutside fell
    \* RadioCardsRoot with its items
    rcControlled,   \* the value prop: Null (undefined) or Some(string)
    rcUncontrolled, \* useState(defaultValue): Null (undefined) or Some(string)
    rcDisabled,     \* the item values rendered with the disabled prop
    rcHasCallback,  \* whether the onValueChange prop is supplied
    rcCalls,        \* the arguments of the calls of onValueChange so far
    rcLast,         \* the item that received the last change event
    \* GitHubStar
    stars,          \* useState<number | null>(null)
    loading,        \* useState(true)
    pc,             \* where fetchStars stands
    fetchCalls,     \* how often fetch() has been called
    logged,         \* how often console.error has been called
    unhandled,      \* whether a rejection has left fetchStars
    \* formatStars applied as a pure function
    fmtCount,       \* its argument
    fmtText         \* its result, <<>> before it is applied

cardVars == <<items, selectedTag, lastValue>>
rwVars   == <<rwHist, rwTrail>>
vsVars   == <<variant, pathname, currentVersion, isOpen, effectPending,
              navRequest, focus, lastKey, newValue, clicked, mouseTarget>>
rcVars   == <<rcControlled, rcUncontrolled, rcDisabled, rcHasCallback,
              rcCalls, rcLast>>
starVars == <<stars, loading, pc, fetchCalls, logged, unhandled>>
fmtVars  == <<fmtCount, fmtText>>
sideVars == <<rcVars, starVars, fmtVars>>
vars     == <<cardVars, rwVars, vsVars, sideVars>>

(***************************************************************************)
(* Bounds                                                                  *)
(***************************************************************************)
MaxItems == 3
MaxTagsPerEntry == 2
MaxPathLen == 5
MaxVSPathLen == 4
MaxApply == 2
MaxStars == 12500
MaxCalls == 2

(***************************************************************************)
(* Generic helpers                                                         *)
(***************************************************************************)
Range(s) == {s[i] : i \in 1..Len(s)}

SeqsUpTo(S, n) == UNION {[1..k -> S] : k \in 0..n}

\* Array.prototype.includes on an array of strings
ArrayIncludes(arr, x) == \E i \in 1..Len(arr) : arr[i] = x

\* string | null
Null == <<>>
Some(s) == <<s>>

(***************************************************************************)
(* DocCardList                                                             *)
(***************************************************************************)
TAGS == <<"vector-index", "knowledge-graph", "multi-modal",
          "structured-data-extraction", "custom-building-blocks",
          "data-mapping">>

ItemValues_fromEntries ==
    {""} \cup {t \in Range(TAGS) :
                \E i \in 1..Len(items) :
                    items[i].tags.kind = "array"
                    /\ \E k \in 1..Len(items[i].tags.val) : items[i].tags.val[k] = t}

\* The values of the rendered RadioCards.Item elements: "" (All Categories)
\* followed by one item per tag.
ItemValues == {""} \cup Range(TAGS)

\* Tag strings that entries of the model carry: a tag of TAGS and the same
\* tag in another letter case.
EntryTagPool == {"vector-index", "Vector-Index"}

\* customProps.tags of an entry: absent, a bare string (not an array), or an
\* array of strings.
NoDup(s) == \A i, j \in 1..Len(s) : i /= j => s[i] /= s[j]

TagsValues ==
    {[kind |-> "absent", val |-> <<>>]}
    \cup {[kind |-> "string", val |-> <<t>>] : t \in {"vector-index"}}
    \cup {[kind |-> "array", val |-> a] :
            a \in {s \in SeqsUpTo(EntryTagPool, MaxTagsPerEntry) : NoDup(s)}}

\* customProps.image of an entry: not a string (NoImage), the empty string,
\* or the address of a picture.
NoImage == "undefined"
ImageValues == {NoImage, "", "/img/cover.png"}

FewTagsValues ==
    {[kind |-> "absent", val |-> <<>>],
     [kind |-> "array", val |-> <<"vector-index">>]}

\* The sidebar items of the model.  Every tags value occurs on a link with a
\* picture; items that DocCard draws nothing for (a category, a link whose
\* image is no string or is empty) occur without tags and with one tag.
Entries ==
    {[tags |-> t, type |-> "link", image |-> "/img/cover.png"] : t \in TagsValues}
    \cup {[tags |-> t, type |-> "category", image |-> "/img/cover.png"] :
            t \in FewTagsValues}
    \cup {[tags |-> t, type |-> "link", image |-> im] :
            t \in FewTagsValues, im \in ImageValues}

ArrayIsArray(t) == t.kind = "array"

\* String.prototype.includes / Array.prototype.includes as reached through
\* item.customProps.tags.includes(selectedTag): on an array, membership; on a
\* bare string, substring search, which finds the tag in itself.
TagsIncludes(t, tag) == ArrayIncludes(t.val, tag)

ItemMatches_noArrayCheck(item, tag) == TagsIncludes(item.tags, tag)

\* lines 52-54: the filter callback
ItemMatches(item, tag) ==
    ArrayIsArray(item.tags) /\ TagsIncludes(item.tags, tag)

\* JS truthiness of selectedTag (string | null)
Truthy(t) == t /= Null /\ t /= Some("")

RECURSIVE Reverse(_)
Reverse(s) == IF s = <<>> THEN <<>> ELSE Append(Reverse(Tail(s)), Head(s))

\* Array.prototype.filter: keeps the matching elements in order
RECURSIVE Filter(_, _)
Filter(s, tag) ==
    IF s = <<>> THEN <<>>
    ELSE IF ItemMatches(Head(s), tag)
         THEN <<Head(s)>> \o Filter(Tail(s), tag)
         ELSE Filter(Tail(s), tag)

filteredItems_alwaysFilter ==
    IF selectedTag = Null THEN <<>> ELSE Filter(items, selectedTag[1])

filteredItems_reversed ==
    IF Truthy(selectedTag) THEN Reverse(Filter(items, selectedTag[1])) ELSE items

\* lines 49-56
filteredItems ==
    IF Truthy(selectedTag) THEN Filter(items, selectedTag[1]) ELSE items

handleValueChange_keepsEmpty(value) == selectedTag' = Some(value)

\* lines 58-61
handleValueChange(value) ==
    selectedTag' = IF value = "" THEN Null ELSE Some(value)

radioValue_noneForAll == IF selectedTag = Null THEN "none" ELSE selectedTag[1]

\* line 64
radioValue == IF selectedTag = Null THEN "" ELSE selectedTag[1]

\* part_001 line 152: the value the root hands to its items; DocCardList
\* supplies value = radioValue, a string, so the root is controlled
rootValue == radioValue

\* part_001 line 311
isChecked(value) == rootValue = value

\* part_001 line 300: DocCardList passes no disabled prop to any item
itemDisabled(value) == FALSE

\* part_000 lines 41-44: the image DocCard hands to CardLayout
docCardImage(item) == IF item.image /= NoImage THEN item.image ELSE NoImage

DocCardRenders_linkOnly(item) == item.type = "link"

\* part_000 lines 35-39 and 19-22: whether DocCard draws a card for the
\* item; it returns null for anything but a link, and CardLayout returns
\* null when the image is undefined or the empty string
DocCardRenders(item) ==
    /\ item.type = "link"
    /\ docCardImage(item) /= NoImage
    /\ docCardImage(item) /= ""

\* DocCardList lines 93-97: one slot (div.cardItem) per element of
\* filteredItems, holding what DocCard draws for it
cardSlots ==
    [j \in 1..Len(filteredItems) |->
        [item |-> filteredItems[j], card |-> DocCardRenders(filteredItems[j])]]

SelectItem_inPlace(value) ==
    /\ ~itemDisabled(value)
    /\ handleValueChange(value)
    /\ lastValue' = value
    /\ items' = IF value = "" THEN items ELSE Filter(items, value)
    /\ UNCHANGED <<rwVars, vsVars, sideVars>>

\* A RadioCards.Item of the list is chosen: RadioCardsItem's onChange calls
\* the root's handleValueChange, which (value being supplied) only forwards
\* to onValueChange = handleValueChange of DocCardList.
SelectItem(value) ==
    /\ ~itemDisabled(value)
    /\ handleValueChange(value)
    /\ lastValue' = value
    /\ UNCHANGED <<items, rwVars, vsVars, sideVars>>

CardsIdle == items = <<>> /\ selectedTag = Null /\ lastValue = "none"

InitCards ==
    /\ items \in SeqsUpTo(Entries, MaxItems)
    /\ selectedTag = Null
    /\ lastValue = "none"

NextCards == \E value \in ItemValues : SelectItem(value)

(***************************************************************************)
(* URL paths.  A path is the sequence of its tokens: a root name with its  *)
(* leading slash, any other segment with its leading slash, the marker     *)
(* prefix "-v", and single digits.  "/docs-v12/foo" is                     *)
(* <<"/docs", "-v", "1", "2", "/foo">>.  The searched substrings and the   *)
(* regular expressions of the code begin and end on token boundaries, so   *)
(* searching the token sequence is searching the string.                   *)
(***************************************************************************)
Digits == {"1", "2"}
RootTokens == {"/examples", "/docs"}
Tokens == RootTokens \cup {"/foo", "-v"} \cup Digits
Versions == {"v0", "v1"}

\* location.pathname always begins with a slash
PathsUpTo(n) ==
    {p \in SeqsUpTo(Tokens, n) :
        Len(p) >= 1 /\ p[1] \in RootTokens \cup {"/foo"}}

\* Positions at which pat occurs in s
Occurrences(s, pat) ==
    {i \in 1..(Len(s) - Len(pat) + 1) : SubSeq(s, i, i + Len(pat) - 1) = pat}

\* String.prototype.includes
Includes(s, pat) == Occurrences(s, pat) /= {}

Min(S) == CHOOSE x \in S : \A y \in S : x <= y

\* a single digit: \d
DigitRunEnd_oneDigit(s, k) ==
    IF k <= Len(s) /\ s[k] \in Digits THEN k ELSE k - 1

\* The last index of the run of digits that begins at index k (k - 1 when
\* s[k] is no digit): the greedy \d+ / \d*.
RECURSIVE DigitRunEnd(_, _)
DigitRunEnd(s, k) ==
    IF k <= Len(s) /\ s[k] \in Digits THEN DigitRunEnd(s, k + 1) ELSE k - 1

\* Whether "-v\d+" matches at index k
MarkerAt(s, k) == k + 1 <= Len(s) /\ s[k] = "-v" /\ s[k + 1] \in Digits

\* the expression anchored at the end of the path: /<root>-v\d+$/
StripMarker_anchored(s, root) ==
    LET hits == {i \in 1..Len(s) : /\ s[i] = root
                                   /\ MarkerAt(s, i + 1)
                                   /\ DigitRunEnd(s, i + 2) = Len(s)}
    IN  IF hits = {} THEN s
        ELSE SubSeq(s, 1, Min(hits) - 1) \o <<root>>

\* s.replace(/<root>-v\d+/, root): the first match, if any, is replaced
StripMarker(s, root) ==
    LET hits == {i \in 1..Len(s) : s[i] = root /\ MarkerAt(s, i + 1)}
    IN  IF hits = {} THEN s
        ELSE LET i == Min(hits)
                 e == DigitRunEnd(s, i + 2)
             IN  SubSeq(s, 1, i - 1) \o <<root>> \o SubSeq(s, e + 1, Len(s))

\* the expression without its optional group: /<root>/
SetMarker_appendOnly(s, root) ==
    LET hits == {i \in 1..Len(s) : s[i] = root}
    IN  IF hits = {} THEN s
        ELSE LET i == Min(hits)
             IN  SubSeq(s, 1, i - 1) \o <<root, "-v", "1">>
                    \o SubSeq(s, i + 1, Len(s))

\* s.replace(/<root>(-v\d+)?/, root + "-v1"): the first occurrence of the
\* root, with the marker that follows it when there is one
SetMarker(s, root) ==
    LET hits == {i \in 1..Len(s) : s[i] = root}
    IN  IF hits = {} THEN s
        ELSE LET i == Min(hits)
                 e == IF MarkerAt(s, i + 1) THEN DigitRunEnd(s, i + 2) ELSE i
             IN  SubSeq(s, 1, i - 1) \o <<root, "-v", "1">>
                    \o SubSeq(s, e + 1, Len(s))

DetectVersion_examplesOnly(path) ==
    IF Includes(path, <<"/examples", "-v", "1">>) THEN "v1" ELSE "v0"

\* VersionSelector/index.tsx lines 15-23 (the body of the detection effect)
DetectVersion(path) ==
    IF Includes(path, <<"/examples", "-v", "1">>)
       \/ Includes(path, <<"/docs", "-v", "1">>)
    THEN "v1" ELSE "v0"

computeTargetPath_docsFirst(path, value) ==
    IF value = "v0"
    THEN IF Includes(path, <<"/docs">>) THEN StripMarker(path, "/docs")
         ELSE IF Includes(path, <<"/examples">>)
              THEN StripMarker(path, "/examples")
              ELSE path
    ELSE IF value = "v1"
    THEN IF Includes(path, <<"/docs">>) THEN SetMarker(path, "/docs")
         ELSE IF Includes(path, <<"/examples">>)
              THEN SetMarker(path, "/examples")
              ELSE path
    ELSE path

\* VersionSelector/index.tsx lines 96-123 (part_007 lines 24-51): newPath
computeTargetPath(path, value) ==
    IF value = "v0"
    THEN IF Includes(path, <<"/examples">>) THEN StripMarker(path, "/examples")
         ELSE IF Includes(path, <<"/docs">>) THEN StripMarker(path, "/docs")
              ELSE path
    ELSE IF value = "v1"
    THEN IF Includes(path, <<"/examples">>) THEN SetMarker(path, "/examples")
         ELSE IF Includes(path, <<"/docs">>) THEN SetMarker(path, "/docs")
              ELSE path
    ELSE path

\* The rewriter as a function: one more application, to target version t
Rewrite(t) ==
    /\ Len(rwTrail) < MaxApply
    /\ rwHist' = Append(rwHist, computeTargetPath(rwHist[Len(rwHist)], t))
    /\ rwTrail' = Append(rwTrail, t)
    /\ UNCHANGED <<cardVars, vsVars, sideVars>>

InitRewrite ==
    /\ rwHist \in {<<p>> : p \in PathsUpTo(MaxPathLen)}
    /\ rwTrail = <<>>

RwIdle == rwHist = <<>> /\ rwTrail = <<>>

NextRewrite == \E t \in Versions : Rewrite(t)


(***************************************************************************)
(* VersionSelector.  Three revisions of the component are in the source:   *)
(*   "A"  src/src/components/VersionSelector/index.tsx  (both options      *)
(*        enabled, custom dropdown)                                        *)
(*   "B"  src/unnamed/part_006  (v1 disabled, base-path navigation)        *)
(*   "C"  src/unnamed/part_007  (native <select>, no menu state)           *)
(*                                                                         *)
(* The detection effect is queued by the render that follows a mount or a  *)
(* change of location.pathname and runs before the next user event is      *)
(* handled (React flushes passive effects ahead of discrete events), so    *)
(* handlers run with effectPending = FALSE; the state in between is the    *)
(* one the first paint shows.  An assignment to window.location.href is    *)
(* carried out by the browser after the handler returns (LoadPage); the    *)
(* document that is being replaced receives no further events.             *)
(***************************************************************************)
Variants == {"A", "B", "C"}
HasMenu(v) == v \in {"A", "B"}

options_allEnabled(v) ==
    <<[value |-> "v0", disabled |-> FALSE], [value |-> "v1", disabled |-> FALSE]>>

\* A: lines 130-133; B: part_006 lines 8-11; C: part_007 lines 65-66
options(v) ==
    IF v = "B"
    THEN <<[value |-> "v0", disabled |-> FALSE],
           [value |-> "v1", disabled |-> TRUE]>>
    ELSE <<[value |-> "v0", disabled |-> FALSE],
           [value |-> "v1", disabled |-> FALSE]>>

\* part_006 lines 92-93: options.find(opt => opt.value === value)?.disabled
IsDisabled(v, value) ==
    \E i \in 1..Len(options(v)) :
        options(v)[i].value = value /\ options(v)[i].disabled

NoNav == [pending |-> FALSE, href |-> <<>>]
NavTo(path) == [pending |-> TRUE, href |-> path]

\* JavaScript numbers: a % n keeps the sign of a.  n = 0 gives NaN, which
\* indexes nothing: -1 stands for it.
JsMod(a, n) ==
    IF n = 0 THEN -1
    ELSE IF a >= 0 THEN a % n ELSE 0 - ((0 - a) % n)

\* Array.prototype.indexOf, 0-based, -1 when absent
IndexOf(arr, x) ==
    IF \E i \in 1..Len(arr) : arr[i] = x
    THEN Min({i \in 1..Len(arr) : arr[i] = x}) - 1
    ELSE -1

\* arr[idx] for a 0-based idx; undefined outside the array
ElementAt(arr, idx) ==
    IF idx \in 0..(Len(arr) - 1) THEN arr[idx + 1] ELSE "undefined"

RECURSIVE Values(_)
Values(opts) ==
    IF opts = <<>> THEN <<>> ELSE <<Head(opts).value>> \o Values(Tail(opts))

enabledValues_all(v) == Values(options(v))

\* part_006 lines 56-57; index.tsx line 51 (its options carry no disabled
\* field, every value is listed)
RECURSIVE EnabledOf(_)
EnabledOf(opts) ==
    IF opts = <<>> THEN <<>>
    ELSE IF Head(opts).disabled THEN EnabledOf(Tail(opts))
         ELSE <<Head(opts).value>> \o EnabledOf(Tail(opts))

enabledValues(v) == EnabledOf(options(v))

\* index.tsx lines 52-55; part_006 lines 58-61
nextIndex(v, key, cur) ==
    LET vals == enabledValues(v)
        currentIndex == IndexOf(vals, cur)
    IN  IF key = "ArrowDown"
        THEN JsMod(currentIndex + 1, Len(vals))
        ELSE JsMod(currentIndex - 1 + Len(vals), Len(vals))

\* index.tsx line 56; part_006 line 62
KeyNewValue(v, key, cur) == ElementAt(enabledValues(v), nextIndex(v, key, cur))

keyTargetPath_docsFirst(path, value) ==
    IF value = "v0"
    THEN IF Includes(path, <<"/docs">>) THEN StripMarker(path, "/docs")
         ELSE IF Includes(path, <<"/examples">>)
              THEN StripMarker(path, "/examples")
              ELSE path
    ELSE IF value = "v1"
    THEN IF Includes(path, <<"/docs">>) THEN SetMarker(path, "/docs")
         ELSE IF Includes(path, <<"/examples">>)
              THEN SetMarker(path, "/examples")
              ELSE path
    ELSE path

\* index.tsx lines 64-77: the rewrite repeated inline in handleKeyDown
keyTargetPath(path, value) ==
    IF value = "v0"
    THEN IF Includes(path, <<"/examples">>) THEN StripMarker(path, "/examples")
         ELSE IF Includes(path, <<"/docs">>) THEN StripMarker(path, "/docs")
              ELSE path
    ELSE IF value = "v1"
    THEN IF Includes(path, <<"/examples">>) THEN SetMarker(path, "/examples")
         ELSE IF Includes(path, <<"/docs">>) THEN SetMarker(path, "/docs")
              ELSE path
    ELSE path

baseTargetPath_keepsSubPath(path, value) == computeTargetPath(path, value)

\* part_006 lines 102-114: base path only; '' when nothing applies
baseTargetPath(path, value) ==
    IF value = "v0"
    THEN IF Includes(path, <<"/examples">>) THEN <<"/examples">>
         ELSE IF Includes(path, <<"/docs">>) THEN <<"/docs">>
              ELSE <<>>
    ELSE <<>>

\* part_006 lines 70-77: the same, repeated inline in handleKeyDown
keyBaseTargetPath(path, value) ==
    IF value = "v0"
    THEN IF Includes(path, <<"/examples">>) THEN <<"/examples">>
         ELSE IF Includes(path, <<"/docs">>) THEN <<"/docs">>
              ELSE <<>>
    ELSE <<>>

CanHandleEvent == ~effectPending /\ ~navRequest.pending

listenersAttached_always == TRUE

\* index.tsx lines 33-38 and 43, 84-87 (part_006 38-43 and 48, 84-87): the
\* mousedown and keydown listeners are on the document while isOpen, and
\* removed by the cleanup of the effect when it changes
listenersAttached == isOpen

handleVersionChange_noEarlyReturn(value) ==
    IF variant = "B" /\ IsDisabled(variant, value)
    THEN UNCHANGED <<isOpen, navRequest>>
    ELSE /\ isOpen' = FALSE
         /\ navRequest' = NavTo(IF variant = "B"
                                THEN baseTargetPath(pathname, value)
                                ELSE computeTargetPath(pathname, value))

handleVersionChange_menuStaysOpen(value) ==
    IF variant = "B" /\ IsDisabled(variant, value)
    THEN UNCHANGED <<isOpen, navRequest>>
    ELSE IF value = currentVersion
    THEN /\ isOpen' = FALSE
         /\ UNCHANGED navRequest
    ELSE /\ UNCHANGED isOpen
         /\ navRequest' = NavTo(IF variant = "B"
                                THEN baseTargetPath(pathname, value)
                                ELSE computeTargetPath(pathname, value))

\* index.tsx lines 90-128; part_006 lines 90-119; part_007 lines 19-55
handleVersionChange(value) ==
    IF variant = "B" /\ IsDisabled(variant, value)
    THEN UNCHANGED <<isOpen, navRequest>>
    ELSE IF value = currentVersion
    THEN /\ isOpen' = FALSE
         /\ UNCHANGED navRequest
    ELSE /\ isOpen' = FALSE
         /\ navRequest' = NavTo(IF variant = "B"
                                THEN baseTargetPath(pathname, value)
                                ELSE computeTargetPath(pathname, value))

ClickOption_setsVersion(value) ==
    /\ CanHandleEvent
    /\ HasMenu(variant) => isOpen
    /\ clicked' = value
    /\ lastKey' = "none" /\ newValue' = "none" /\ mouseTarget' = "none"
    /\ IF variant = "B" /\ IsDisabled(variant, value)
       THEN UNCHANGED <<isOpen, navRequest, currentVersion>>
       ELSE handleVersionChange(value) /\ currentVersion' = value
    /\ UNCHANGED <<variant, pathname, effectPending, focus>>
    /\ UNCHANGED <<cardVars, rwVars, sideVars>>

\* index.tsx line 162; part_006 line 152; part_007 line 61
ClickOption(value) ==
    /\ CanHandleEvent
    /\ HasMenu(variant) => isOpen
    /\ clicked' = value
    /\ lastKey' = "none" /\ newValue' = "none" /\ mouseTarget' = "none"
    /\ IF variant = "B" /\ IsDisabled(variant, value)
       THEN UNCHANGED <<isOpen, navRequest>>
       ELSE handleVersionChange(value)
    /\ UNCHANGED <<variant, pathname, currentVersion, effectPending, focus>>
    /\ UNCHANGED <<cardVars, rwVars, sideVars>>

\* index.tsx lines 45-82; part_006 lines 50-82.  The listener is attached
\* only while the menu is open (lines 42-43).
HandleArrowKey(key) ==
    /\ CanHandleEvent
    /\ HasMenu(variant)
    /\ listenersAttached
    /\ LET nv == KeyNewValue(variant, key, currentVersion)
       IN  /\ lastKey' = key
           /\ newValue' = nv
           /\ clicked' = "none" /\ mouseTarget' = "none"
           /\ isOpen' = FALSE
           /\ IF nv = currentVersion
              THEN UNCHANGED navRequest
              ELSE navRequest' = NavTo(IF variant = "B"
                                       THEN keyBaseTargetPath(pathname, nv)
                                       ELSE keyTargetPath(pathname, nv))
    /\ UNCHANGED <<variant, pathname, currentVersion, effectPending, focus>>
    /\ UNCHANGED <<cardVars, rwVars, sideVars>>

HandleEscape_noFocus ==
    /\ CanHandleEvent
    /\ HasMenu(variant)
    /\ listenersAttached
    /\ isOpen' = FALSE
    /\ lastKey' = "Escape"
    /\ newValue' = "none" /\ clicked' = "none" /\ mouseTarget' = "none"
    /\ UNCHANGED <<variant, pathname, currentVersion, effectPending,
                   navRequest, focus>>
    /\ UNCHANGED <<cardVars, rwVars, sideVars>>

\* index.tsx lines 46-48; part_006 lines 51-53: setIsOpen(false) and
\* triggerRef.current?.focus(); the trigger button is always rendered, so
\* the ref is set
HandleEscape ==
    /\ CanHandleEvent
    /\ HasMenu(variant)
    /\ listenersAttached
    /\ isOpen' = FALSE
    /\ focus' = "trigger"
    /\ lastKey' = "Escape"
    /\ newValue' = "none" /\ clicked' = "none" /\ mouseTarget' = "none"
    /\ UNCHANGED <<variant, pathname, currentVersion, effectPending,
                   navRequest>>
    /\ UNCHANGED <<cardVars, rwVars, sideVars>>

handleClickOutside_anyTarget(inside) == isOpen' = FALSE

\* index.tsx lines 27-31; part_006 lines 32-36: inside is
\* selectRef.current.contains(event.target); the root element is always
\* rendered, so selectRef.current is set
handleClickOutside(inside) ==
    IF ~inside THEN isOpen' = FALSE ELSE UNCHANGED isOpen

\* index.tsx lines 27-38; part_006 lines 32-43: mousedown while the menu is
\* open (the listener is attached only then), outside the component's
\* element
ClickOutside ==
    /\ CanHandleEvent
    /\ HasMenu(variant)
    /\ listenersAttached
    /\ handleClickOutside(FALSE)
    /\ mouseTarget' = "outside"
    /\ lastKey' = "none" /\ newValue' = "none" /\ clicked' = "none"
    /\ UNCHANGED <<variant, pathname, currentVersion, effectPending,
                   navRequest, focus>>
    /\ UNCHANGED <<cardVars, rwVars, sideVars>>

\* the same listener, for a mousedown on the trigger or on the menu
MouseDownInside ==
    /\ CanHandleEvent
    /\ HasMenu(variant)
    /\ listenersAttached
    /\ handleClickOutside(TRUE)
    /\ mouseTarget' = "inside"
    /\ lastKey' = "none" /\ newValue' = "none" /\ clicked' = "none"
    /\ UNCHANGED <<variant, pathname, currentVersion, effectPending,
                   navRequest, focus>>
    /\ UNCHANGED <<cardVars, rwVars, sideVars>>

\* index.tsx line 141; part_006 line 130
ToggleTrigger ==
    /\ CanHandleEvent
    /\ HasMenu(variant)
    /\ isOpen' = ~isOpen
    /\ lastKey' = "none" /\ newValue' = "none" /\ clicked' = "none"
    /\ mouseTarget' = "none"
    /\ UNCHANGED <<variant, pathname, currentVersion, effectPending,
                   navRequest, focus>>
    /\ UNCHANGED <<cardVars, rwVars, sideVars>>

\* A key goes down while no keydown listener is attached: no code of the
\* component runs
KeyDownUnheard(k) ==
    /\ CanHandleEvent
    /\ HasMenu(variant)
    /\ ~listenersAttached
    /\ lastKey' = k
    /\ newValue' = "none" /\ clicked' = "none" /\ mouseTarget' = "none"
    /\ UNCHANGED <<variant, pathname, currentVersion, isOpen, effectPending,
                   navRequest, focus>>
    /\ UNCHANGED <<cardVars, rwVars, sideVars>>

\* A mousedown outside the component while no mousedown listener is
\* attached: no code of the component runs
MouseDownUnheard ==
    /\ CanHandleEvent
    /\ HasMenu(variant)
    /\ ~listenersAttached
    /\ mouseTarget' = "outside"
    /\ lastKey' = "none" /\ newValue' = "none" /\ clicked' = "none"
    /\ UNCHANGED <<variant, pathname, currentVersion, isOpen, effectPending,
                   navRequest, focus>>
    /\ UNCHANGED <<cardVars, rwVars, sideVars>>

\* The user moves the keyboard focus (Tab, a click elsewhere); the
\* component has no handler for it
FocusPlaces == {"trigger", "elsewhere"}

MoveFocus(f) ==
    /\ CanHandleEvent
    /\ f /= focus
    /\ focus' = f
    /\ UNCHANGED <<variant, pathname, currentVersion, isOpen, effectPending,
                   navRequest, lastKey, newValue, clicked, mouseTarget>>
    /\ UNCHANGED <<cardVars, rwVars, sideVars>>

\* index.tsx lines 16-23: the detection effect
DetectEffect ==
    /\ effectPending
    /\ currentVersion' = DetectVersion(pathname)
    /\ effectPending' = FALSE
    /\ UNCHANGED <<variant, pathname, isOpen, navRequest, focus, lastKey,
                   newValue, clicked, mouseTarget>>
    /\ UNCHANGED <<cardVars, rwVars, sideVars>>

\* Pages of the site the router moves to on a client-side link
SitePaths ==
    {<<"/docs">>, <<"/docs", "-v", "1", "/foo">>, <<"/examples", "/foo">>,
     <<"/foo">>}

\* A client-side route change: useLocation() yields a new pathname, the
\* component stays mounted and its state is kept
RouterNavigate(p) ==
    /\ ~navRequest.pending
    /\ p /= pathname
    /\ pathname' = p
    /\ effectPending' = TRUE
    /\ UNCHANGED <<variant, currentVersion, isOpen, navRequest, focus, lastKey,
                   newValue, clicked, mouseTarget>>
    /\ UNCHANGED <<cardVars, rwVars, sideVars>>

\* The browser carries out window.location.href = href: the document is
\* loaded anew and the component mounts with its initial state.  The empty
\* URL resolves to the current document.
LoadPage ==
    /\ navRequest.pending
    /\ pathname' = IF navRequest.href = <<>> THEN pathname ELSE navRequest.href
    /\ currentVersion' = "v0"
    /\ isOpen' = FALSE
    /\ effectPending' = TRUE
    /\ navRequest' = NoNav
    /\ focus' = "elsewhere"
    /\ lastKey' = "none"
    /\ newValue' = "none"
    /\ clicked' = "none"
    /\ mouseTarget' = "none"
    /\ UNCHANGED <<variant, cardVars, rwVars, sideVars>>

InitVS ==
    /\ variant \in Variants
    /\ pathname \in PathsUpTo(MaxVSPathLen)
    /\ currentVersion = "v0"
    /\ isOpen = FALSE
    /\ effectPending = TRUE
    /\ navRequest = NoNav
    /\ focus = "elsewhere"
    /\ lastKey = "none"
    /\ newValue = "none"
    /\ clicked = "none"
    /\ mouseTarget = "none"

VsIdle ==
    /\ variant = "A"
    /\ pathname = <<"/foo">>
    /\ currentVersion = "v0"
    /\ isOpen = FALSE
    /\ effectPending = FALSE
    /\ navRequest = NoNav
    /\ focus = "elsewhere"
    /\ lastKey = "none"
    /\ newValue = "none"
    /\ clicked = "none"
    /\ mouseTarget = "none"

NextVS ==
    \/ \E value \in Versions : ClickOption(value)
    \/ \E key \in {"ArrowDown", "ArrowUp"} : HandleArrowKey(key)
    \/ HandleEscape
    \/ ClickOutside
    \/ MouseDownInside
    \/ ToggleTrigger
    \/ \E k \in {"Escape", "ArrowDown", "ArrowUp"} : KeyDownUnheard(k)
    \/ MouseDownUnheard
    \/ \E f \in FocusPlaces : MoveFocus(f)
    \/ DetectEffect
    \/ \E p \in SitePaths : RouterNavigate(p)
    \/ LoadPage

(***************************************************************************)
(* RadioCards (src/unnamed/part_001): a root with three items, in either   *)
(* mode.  In controlled mode the parent owns the value prop and may pass a *)
(* new one at any render.                                                  *)
(***************************************************************************)
RcItems == {"", "x", "y"}

\* values of the value prop that match no item as well
RcStrings == RcItems \cup {"z"}

\* part_001 line 152
rcValue == IF rcControlled /= Null THEN rcControlled ELSE rcUncontrolled

\* part_001 line 311, for the item with the given value
rcIsChecked(value) == rcValue = Some(value)

\* lines 153-158 with the test of line 154 left out
rootHandleValueChange_alwaysSets(v) ==
    /\ rcUncontrolled' = Some(v)
    /\ rcCalls' = IF rcHasCallback THEN Append(rcCalls, v) ELSE rcCalls

\* part_001 lines 153-158: handleValueChange of the root
rootHandleValueChange(v) ==
    /\ rcUncontrolled' = IF rcControlled = Null THEN Some(v) ELSE rcUncontrolled
    /\ rcCalls' = IF rcHasCallback THEN Append(rcCalls, v) ELSE rcCalls

\* line 329 without the test of disabled
itemOnChange_noGuard(value) == rootHandleValueChange(value)

\* part_001 line 329: onChange of the item's input
itemOnChange(value) ==
    IF value \notin rcDisabled
    THEN rootHandleValueChange(value)
    ELSE UNCHANGED <<rcUncontrolled, rcCalls>>

\* A change event reaches the input of the item
ItemChange(value) ==
    /\ Len(rcCalls) < MaxCalls
    /\ itemOnChange(value)
    /\ rcLast' = [value |-> value, disabled |-> value \in rcDisabled]
    /\ UNCHANGED <<rcControlled, rcDisabled, rcHasCallback>>
    /\ UNCHANGED <<cardVars, rwVars, vsVars, starVars, fmtVars>>

\* The parent of a controlled root renders it with another value
ParentSetsValue(v) ==
    /\ rcControlled /= Null
    /\ rcControlled /= Some(v)
    /\ rcControlled' = Some(v)
    /\ UNCHANGED <<rcUncontrolled, rcDisabled, rcHasCallback, rcCalls, rcLast>>
    /\ UNCHANGED <<cardVars, rwVars, vsVars, starVars, fmtVars>>

NoChange == [value |-> "none", disabled |-> FALSE]

\* line 149: the state starts as the defaultValue prop
InitRadio ==
    /\ rcControlled \in {Null} \cup {Some(v) : v \in RcStrings}
    /\ rcUncontrolled \in {Null} \cup {Some(v) : v \in RcItems}
    /\ rcDisabled \in SUBSET RcItems
    /\ rcHasCallback \in BOOLEAN
    /\ rcCalls = <<>>
    /\ rcLast = NoChange

RcIdle ==
    /\ rcControlled = Null
    /\ rcUncontrolled = Null
    /\ rcDisabled = {}
    /\ rcHasCallback = FALSE
    /\ rcCalls = <<>>
    /\ rcLast = NoChange

NextRadio ==
    \/ \E value \in RcItems : ItemChange(value)
    \/ \E v \in RcStrings : ParentSetsValue(v)


(***************************************************************************)
(* GitHubStar (src/unnamed/part_004).  A JavaScript value of the star      *)
(* count is a record: a number n, null, undefined or NaN.  Text is the     *)
(* sequence of its characters.                                             *)
(***************************************************************************)
Number(n) == [kind |-> "number", n |-> n]
JsNull == [kind |-> "null", n |-> 0]
JsUndefined == [kind |-> "undefined", n |-> 0]
JsNaN == [kind |-> "NaN", n |-> 0]
\* A boolean, with the number it is coerced to in n
JsBoolean(b) == [kind |-> "boolean", n |-> IF b THEN 1 ELSE 0]

\* The star counts of the model: stargazers_count is a non-negative integer
StarNumbers == {Number(n) : n \in 0..MaxStars}

DigitChars == <<"0", "1", "2", "3", "4", "5", "6", "7", "8", "9">>

\* The decimal numeral of a natural number, without grouping: what
\* toLocaleString gives below 1000 and what a template literal gives
RECURSIVE toDecimal(_)
toDecimal(n) ==
    IF n < 10 THEN <<DigitChars[n + 1]>>
    ELSE toDecimal(n \div 10) \o <<DigitChars[(n % 10) + 1]>>

\* count.toLocaleString() for a count below 1000: the numeral of a number
\* (no grouping below 1000), the word of a boolean
toLocaleString(count) ==
    IF count.kind = "boolean"
    THEN IF count.n = 1 THEN <<"t", "r", "u", "e">>
         ELSE <<"f", "a", "l", "s", "e">>
    ELSE toDecimal(count.n)

\* isNaN(count): true of NaN and of undefined (Number(undefined) is NaN),
\* false of a number, of null and of a boolean (coerced to 1 or 0)
isNaN(count) == count.kind \in {"NaN", "undefined"}

\* Math.round of m / d for naturals m, d: halves go up
MathRound(m, d) == (2 * m + d) \div (2 * d)

\* Math.round(count / 1000) without the rounding: the integer part only
formatStars_truncated(count) ==
    IF count.kind = "null" \/ isNaN(count) THEN <<"0">>
    ELSE IF count.n < 1000 THEN toLocaleString(count)
    ELSE IF count.n < 10000
    THEN LET tenths == count.n \div 100
         IN  toDecimal(tenths \div 10) \o <<".", DigitChars[(tenths % 10) + 1], "k">>
    ELSE toDecimal(count.n \div 1000) \o <<"k">>

\* part_004 lines 84-94
formatStars(count) ==
    IF count.kind = "null" \/ isNaN(count) THEN <<"0">>
    ELSE IF count.n < 1000 THEN toLocaleString(count)
    ELSE IF count.n < 10000
    THEN LET tenths == MathRound(count.n, 100)   \* 10 * rounded
         IN  toDecimal(tenths \div 10) \o <<".", DigitChars[(tenths % 10) + 1], "k">>
    ELSE toDecimal(MathRound(count.n, 1000)) \o <<"k">>

\* part_004 lines 127-140: what the count element shows
Spinner == <<"...">>
display == IF loading THEN Spinner ELSE formatStars(stars)

\* What response.json() can resolve to: an object with a numeric
\* stargazers_count, an object without the field (an error body of the
\* API), an object whose field is null or a boolean, or the JSON value null
Bodies ==
    {[kind |-> "object", count |-> c] :
        c \in StarNumbers \cup {JsUndefined, JsNull,
                                JsBoolean(TRUE), JsBoolean(FALSE)}}
    \cup {[kind |-> "null", count |-> JsUndefined]}

\* lines 102-110 without the catch clause: the rejection leaves fetchStars
settle_noCatch(thrown, newStars) ==
    /\ stars' = IF thrown THEN stars ELSE newStars
    /\ logged' = logged
    /\ unhandled' = (unhandled \/ thrown)
    /\ loading' = FALSE
    /\ pc' = "done"

\* lines 102-110: the try block has thrown or has reached setStars; the
\* catch clause logs and rethrows nothing; finally clears loading
settle(thrown, newStars) ==
    /\ stars' = IF thrown THEN stars ELSE newStars
    /\ logged' = IF thrown THEN logged + 1 ELSE logged
    /\ unhandled' = unhandled
    /\ loading' = FALSE
    /\ pc' = "done"

\* lines 100-114: the effect of the mount calls fetchStars, which calls
\* fetch and waits
RunEffect ==
    /\ pc = "mounted"
    /\ pc' = "fetching"
    /\ fetchCalls' = fetchCalls + 1
    /\ UNCHANGED <<stars, loading, logged, unhandled>>
    /\ UNCHANGED <<cardVars, rwVars, vsVars, rcVars, fmtVars>>

\* line 103: fetch resolves with a response (of any status); line 104
\* calls response.json() and waits
FetchResolves ==
    /\ pc = "fetching"
    /\ pc' = "parsing"
    /\ UNCHANGED <<stars, loading, fetchCalls, logged, unhandled>>
    /\ UNCHANGED <<cardVars, rwVars, vsVars, rcVars, fmtVars>>

\* line 103: fetch rejects (no network)
FetchRejects ==
    /\ pc = "fetching"
    /\ settle(TRUE, stars)
    /\ UNCHANGED fetchCalls
    /\ UNCHANGED <<cardVars, rwVars, vsVars, rcVars, fmtVars>>

\* lines 104-105: json() resolves with data; data.stargazers_count throws a
\* TypeError when data is null
JsonResolves(data) ==
    /\ pc = "parsing"
    /\ settle(data.kind = "null", data.count)
    /\ UNCHANGED fetchCalls
    /\ UNCHANGED <<cardVars, rwVars, vsVars, rcVars, fmtVars>>

\* line 104: json() rejects (the body is not JSON)
JsonRejects ==
    /\ pc = "parsing"
    /\ settle(TRUE, stars)
    /\ UNCHANGED fetchCalls
    /\ UNCHANGED <<cardVars, rwVars, vsVars, rcVars, fmtVars>>

InitStar ==
    /\ stars = JsNull
    /\ loading = TRUE
    /\ pc = "mounted"
    /\ fetchCalls = 0
    /\ logged = 0
    /\ unhandled = FALSE

StarIdle == InitStar

NextStar ==
    \/ RunEffect
    \/ FetchResolves
    \/ FetchRejects
    \/ \E data \in Bodies : JsonResolves(data)
    \/ JsonRejects

\* formatStars as a function: applied once to the argument
FormatInputs == StarNumbers \cup {JsNull, JsNaN, JsUndefined}

Format ==
    /\ fmtText = <<>>
    /\ fmtText' = formatStars(fmtCount)
    /\ UNCHANGED fmtCount
    /\ UNCHANGED <<cardVars, rwVars, vsVars, rcVars, starVars>>

InitFormat ==
    /\ fmtCount \in FormatInputs
    /\ fmtText = <<>>

FmtIdle == fmtCount = JsNull /\ fmtText = <<>>

NextFormat == Format


(***************************************************************************)
(* Specifications: one per component; the other components stay idle.      *)
(***************************************************************************)
SideIdle == RcIdle /\ StarIdle /\ FmtIdle

InitCardsAll == InitCards /\ RwIdle /\ VsIdle /\ SideIdle
SpecCards == InitCardsAll /\ [][NextCards]_vars

InitRewriteAll == InitRewrite /\ CardsIdle /\ VsIdle /\ SideIdle
SpecRewrite == InitRewriteAll /\ [][NextRewrite]_vars

InitVSAll == InitVS /\ CardsIdle /\ RwIdle /\ SideIdle
SpecVS == InitVSAll /\ [][NextVS]_vars

InitRadioAll ==
    InitRadio /\ CardsIdle /\ RwIdle /\ VsIdle /\ StarIdle /\ FmtIdle
SpecRadio == InitRadioAll /\ [][NextRadio]_vars

InitStarAll ==
    InitStar /\ CardsIdle /\ RwIdle /\ VsIdle /\ RcIdle /\ FmtIdle
SpecStar == InitStarAll /\ [][NextStar]_vars

InitFormatAll ==
    InitFormat /\ CardsIdle /\ RwIdle /\ VsIdle /\ RcIdle /\ StarIdle
SpecFormat == InitFormatAll /\ [][NextFormat]_vars

Init == InitVSAll
Next == NextVS
Spec == SpecVS


(***************************************************************************)
(* DocCardList: properties (specification SpecCards)                       *)
(***************************************************************************)
Visible(e) == \E j \in 1..Len(filteredItems) : filteredItems[j] = e

\* C1: under a selected tag t, an entry is visible if and only if its tags
\* value is an array that holds t as one of its elements (string equality);
\* entries without tags, with a non-array tags value or with an empty array
\* are not visible.
C1_VisibleIffTagged ==
    selectedTag /= Null =>
        \A i \in 1..Len(items) :
            Visible(items[i]) <=>
                /\ items[i].tags.kind = "array"
                /\ \E k \in 1..Len(items[i].tags.val) :
                       items[i].tags.val[k] = selectedTag[1]

\* C1 witness: "vector-index" is selected; the list holds an entry tagged
\* with it (shown), and entries that carry it only as a bare string or in
\* another letter case, or carry no tags (all hidden).
C1_Witness ==
    /\ selectedTag = Some("vector-index")
    /\ Len(items) = 3
    /\ items[1].tags = [kind |-> "string", val |-> <<"vector-index">>]
    /\ items[2].tags = [kind |-> "array", val |-> <<"Vector-Index">>]
    /\ items[3].tags = [kind |-> "array", val |-> <<"Vector-Index", "vector-index">>]
    /\ filteredItems = <<items[3]>>

\* C2: the visible list is a subsequence of the entry list: some strictly
\* increasing map of positions sends every visible entry to an equal entry
\* of the list.
C2_Subsequence ==
    \E f \in [1..Len(filteredItems) -> 1..Len(items)] :
        /\ \A j \in 1..Len(filteredItems) : filteredItems[j] = items[f[j]]
        /\ \A j, k \in 1..Len(filteredItems) : j < k => f[j] < f[k]

\* C2 witness: a tag is selected, two different entries are visible and a
\* third one between them is hidden.
C2_Witness ==
    /\ selectedTag /= Null
    /\ Len(items) = 3
    /\ Len(filteredItems) = 2
    /\ filteredItems[1] = items[1]
    /\ filteredItems[2] = items[3]
    /\ items[1] /= items[3]
    /\ items[2] /= items[1]
    /\ items[2] /= items[3]

\* C3: with no tag selected the visible list is the entry list itself, and
\* choosing "All Categories" after any selections stores null and shows the
\* whole list again.
C3_AllShowsEverything ==
    /\ [](~Truthy(selectedTag) => filteredItems = items)
    /\ [][SelectItem("") =>
            (selectedTag' = Null /\ items' = items /\ filteredItems' = items)]_vars

\* C3 witness: "All Categories" has just been chosen on a list with entries
\* that a tag would hide, and all three entries are shown.
C3_Witness ==
    /\ lastValue = ""
    /\ selectedTag = Null
    /\ Len(items) = 3
    /\ items[1].tags.kind = "absent"
    /\ items[2].tags = [kind |-> "array", val |-> <<>>]
    /\ items[3].tags = [kind |-> "array", val |-> <<"vector-index">>]
    /\ Len(filteredItems) = 3

\* The options of the tag control that are checked
CheckedItems == {v \in ItemValues : isChecked(v)}

\* C16: in every reachable state the tag control has one option per tag and
\* one for "all" (N + 1 options), and exactly one of them is checked: the
\* option of the selected tag, or the "all" option when no tag is selected.
C16_ExactlyOneChecked ==
    /\ Cardinality(ItemValues) = Len(TAGS) + 1
    /\ Cardinality(CheckedItems) = 1
    /\ (selectedTag = Null => CheckedItems = {""})
    /\ (selectedTag /= Null =>
            /\ selectedTag[1] /= ""
            /\ CheckedItems = {selectedTag[1]})

\* C16 witness: "knowledge-graph" has been chosen; its option is checked,
\* the "all" option and the option of another tag are not.
C16_Witness ==
    /\ lastValue = "knowledge-graph"
    /\ selectedTag = Some("knowledge-graph")
    /\ isChecked("knowledge-graph")
    /\ ~isChecked("")
    /\ ~isChecked("vector-index")
    /\ Len(items) = 2

\* The entry at place i of the list has a drawn card among the results
HasCard(i) ==
    \E j \in 1..Len(cardSlots) :
        cardSlots[j].item = items[i] /\ cardSlots[j].card

C18_ListNotMutated ==
    [][(\E value \in ItemValues : SelectItem(value)) =>
            /\ Len(items') = Len(items)
            /\ \A i \in 1..Len(items) : items'[i] = items[i]
            /\ UNCHANGED <<rwVars, vsVars, sideVars>>]_vars

\* C18 witness: a tag that hides two of three different entries is selected;
\* the list still holds all three.
C18_Witness ==
    /\ lastValue = "vector-index"
    /\ selectedTag = Some("vector-index")
    /\ Len(items) = 3
    /\ Len(filteredItems) = 1
    /\ filteredItems[1] = items[2]
    /\ items[1] /= items[2]
    /\ items[3] /= items[2]
    /\ items[1] /= items[3]

\* No entry of the list matches the selected tag
NoMatch ==
    /\ selectedTag /= Null
    /\ \A i \in 1..Len(items) :
          ~(/\ items[i].tags.kind = "array"
            /\ \E k \in 1..Len(items[i].tags.val) :
                   items[i].tags.val[k] = selectedTag[1])

\* C19: the tag control offers every tag of the fixed list and "all" in
\* every state, whatever the entries and the selection; when the list is
\* empty or no entry matches the selected tag, there are no results, and
\* every option can still be chosen.
C19_ControlAlwaysComplete ==
    /\ ItemValues = {""} \cup {TAGS[k] : k \in 1..Len(TAGS)}
    /\ \A v \in {""} \cup {TAGS[k] : k \in 1..Len(TAGS)} :
          ~itemDisabled(v) /\ ENABLED SelectItem(v)
    /\ ((items = <<>> \/ NoMatch) =>
            filteredItems = <<>> /\ cardSlots = <<>>)

\* C19 witness: "knowledge-graph" is selected on a list of three tagged
\* entries none of which carries it: nothing is shown.
C19_Witness ==
    /\ lastValue = "knowledge-graph"
    /\ selectedTag = Some("knowledge-graph")
    /\ Len(items) = 3
    /\ \A i \in 1..3 : items[i].tags.kind = "array" /\ Len(items[i].tags.val) >= 1
    /\ filteredItems = <<>>


\* C30: in every reachable state the selected tag is null or one of the
\* tags of TAGS; it is never the empty string nor any other value.
C30_SelectedTagInTags ==
    \/ selectedTag = Null
    \/ /\ selectedTag[1] /= ""
       /\ \E k \in 1..Len(TAGS) : TAGS[k] = selectedTag[1]

\* C30 witness: the item with the empty value ("All Categories") has been
\* chosen, on an empty list: null is stored, not the empty string.
C30_Witness ==
    /\ lastValue = ""
    /\ selectedTag = Null
    /\ selectedTag /= Some("")
    /\ items = <<>>


(***************************************************************************)
(* Path rewriter: properties (specification SpecRewrite)                   *)
(***************************************************************************)
HasRoot(p) == \E i \in 1..Len(p) : p[i] \in RootTokens

\* The root the rewriter works on: /examples when the path holds it,
\* otherwise /docs
MatchedRoot(p) ==
    IF \E i \in 1..Len(p) : p[i] = "/examples" THEN "/examples" ELSE "/docs"

FirstRootAt(p) == Min({i \in 1..Len(p) : p[i] = MatchedRoot(p)})

\* p[i..e] is a marker: "-v" and then digits up to a non-digit or the end
IsMarker(p, i, e) ==
    /\ i + 1 <= e
    /\ e <= Len(p)
    /\ p[i] = "-v"
    /\ \A k \in (i + 1)..e : p[k] \in Digits
    /\ (e < Len(p) => p[e + 1] \notin Digits)

\* The first occurrence of the matched root carries a marker / is directly
\* followed by a digit
RootHasMarker(p) ==
    LET i == FirstRootAt(p)
    IN  i + 2 <= Len(p) /\ p[i + 1] = "-v" /\ p[i + 2] \in Digits

RootThenDigit(p) ==
    LET i == FirstRootAt(p) IN i + 1 <= Len(p) /\ p[i + 1] \in Digits

MarkerCount(p) ==
    Cardinality({k \in 1..Len(p) : k + 1 <= Len(p) /\ p[k] = "-v" /\ p[k + 1] \in Digits})

\* C4 as stated: for every default-version path under a known root, to v1
\* and back to v0 gives the path again.
C4_RoundTrip_AsStated ==
    (/\ rwTrail = <<"v1", "v0">>
     /\ HasRoot(rwHist[1])
     /\ DetectVersion(rwHist[1]) = "v0")
        => rwHist[3] = rwHist[1]

\* C4 amended: the round trip gives the path again when, in addition, the
\* first occurrence of the matched root carries no -v<digits> marker and is
\* not directly followed by a digit.
C4_RoundTrip ==
    (/\ rwTrail = <<"v1", "v0">>
     /\ HasRoot(rwHist[1])
     /\ DetectVersion(rwHist[1]) = "v0"
     /\ ~RootHasMarker(rwHist[1])
     /\ ~RootThenDigit(rwHist[1]))
        => rwHist[3] = rwHist[1]

\* C4 witness: /docs/foo -> /docs-v1/foo -> /docs/foo
C4_Witness ==
    /\ rwTrail = <<"v1", "v0">>
    /\ rwHist = << <<"/docs", "/foo">>, <<"/docs", "-v", "1", "/foo">>,
                   <<"/docs", "/foo">> >>

\* C5 as stated: for every path and target version, rewriting twice to the
\* same target gives what rewriting once gives.
C5_Idempotent_AsStated ==
    (Len(rwTrail) = 2 /\ rwTrail[1] = rwTrail[2]) => rwHist[3] = rwHist[2]

\* C5 amended: rewriting twice to the same target gives what rewriting once
\* gives, for every path that holds at most one -v<digits> marker and whose
\* matched root is not directly followed by a digit.
C5_Idempotent ==
    (/\ Len(rwTrail) = 2
     /\ rwTrail[1] = rwTrail[2]
     /\ MarkerCount(rwHist[1]) <= 1
     /\ (HasRoot(rwHist[1]) => ~RootThenDigit(rwHist[1])))
        => rwHist[3] = rwHist[2]

\* C5 witness: /docs-v2/foo rewritten to v1 twice: /docs-v1/foo both times
C5_Witness ==
    /\ rwTrail = <<"v1", "v1">>
    /\ rwHist = << <<"/docs", "-v", "2", "/foo">>, <<"/docs", "-v", "1", "/foo">>,
                   <<"/docs", "-v", "1", "/foo">> >>

\* What C6 says of one rewriting of p to v1 with result q: at the first
\* occurrence of the matched root, q holds the root and the marker -v1 and
\* nothing more of a marker; what precedes the root, and what follows the
\* root and its former marker, is that of p.
CarriesV1(p, q) ==
    LET i == FirstRootAt(p)
    IN  \E e \in i..Len(p) :
            /\ (e = i \/ IsMarker(p, i + 1, e))
            /\ (e = i => ~RootHasMarker(p))
            /\ q = SubSeq(p, 1, i) \o <<"-v", "1">> \o SubSeq(p, e + 1, Len(p))
            /\ IsMarker(q, i + 1, i + 2)

\* C6 as stated: for every path under a known root, the path rewritten to
\* v1 carries exactly the marker -v1 on the matched root and keeps
\* everything after it.
C6_CarriesV1_AsStated ==
    \A k \in 1..Len(rwTrail) :
        (rwTrail[k] = "v1" /\ HasRoot(rwHist[k]))
            => CarriesV1(rwHist[k], rwHist[k + 1])

\* C6 amended: the same, for every path whose matched root is not directly
\* followed by a digit.
C6_CarriesV1 ==
    \A k \in 1..Len(rwTrail) :
        (rwTrail[k] = "v1" /\ HasRoot(rwHist[k]) /\ ~RootThenDigit(rwHist[k]))
            => CarriesV1(rwHist[k], rwHist[k + 1])

\* C6 witness: an existing marker is replaced: /docs-v22/foo -> /docs-v1/foo
C6_Witness ==
    /\ rwTrail = <<"v1">>
    /\ rwHist = << <<"/docs", "-v", "2", "2", "/foo">>,
                   <<"/docs", "-v", "1", "/foo">> >>

\* What C7 says of one rewriting of p to v0 with result q: when an
\* occurrence of the matched root carries a marker, q is p without the
\* marker of the first such occurrence; otherwise q is p.  Every token
\* before and after the marker is kept, in place.
MarkerStripped(p, q) ==
    LET r == MatchedRoot(p)
        marked == {i \in 1..Len(p) : p[i] = r /\ \E e \in 1..Len(p) : IsMarker(p, i + 1, e)}
    IN  IF marked = {} THEN q = p
        ELSE \E i \in marked : \E e \in 1..Len(p) :
                /\ \A j \in marked : i <= j
                /\ IsMarker(p, i + 1, e)
                /\ q = SubSeq(p, 1, i) \o SubSeq(p, e + 1, Len(p))

ArrowKeys == {"ArrowDown", "ArrowUp"}

\* C8 as stated: on a path that holds neither root, no navigation request
\* is ever issued.
C8_NoNavOffRoot ==
    navRequest.pending => HasRoot(pathname)

\* In revision B the option "v1" (v1-preview) is the disabled one.
DisabledOption(v, value) == v = "B" /\ value = "v1"

\* C9: a selection of the disabled option, by a click on it or by an arrow
\* key that picks it, leaves the current version, the path and the pending
\* navigation request as they were: nothing is requested.
C9_DisabledRejected ==
    /\ [][(\E value \in Versions :
              ClickOption(value) /\ DisabledOption(variant, value))
            => UNCHANGED <<currentVersion, pathname, navRequest>>]_vars
    /\ [][((\E key \in ArrowKeys : HandleArrowKey(key))
              /\ DisabledOption(variant, newValue'))
            => UNCHANGED <<currentVersion, pathname, navRequest>>]_vars

\* C9 witness: in revision B, on a default-version page with the menu open,
\* the disabled option has just been clicked; nothing was requested and the
\* version is still v0.
C9_Witness ==
    /\ variant = "B"
    /\ clicked = "v1"
    /\ isOpen
    /\ currentVersion = "v0"
    /\ pathname = <<"/docs", "/foo">>
    /\ ~navRequest.pending

\* The option that cyclic navigation over the enabled options reaches from
\* the option cur: the first enabled option met when stepping from cur's
\* place in the list, forwards (dir = 1) or backwards (dir = -1), wrapping
\* around.
CyclicEnabled(opts, cur, dir) ==
    LET n == Len(opts)
        c == CHOOSE i \in 1..n : opts[i].value = cur
        At(k) == ((c - 1 + dir * k) % n) + 1
        steps == {k \in 1..n : ~opts[At(k)].disabled}
    IN  opts[At(Min(steps))].value

\* C10: an arrow key in the open menu picks the next (ArrowDown) or the
\* previous (ArrowUp) enabled option in cyclic order from the current
\* version, and the option picked is an enabled one.
C10_ArrowCyclesEnabled ==
    [][\A key \in ArrowKeys :
          HandleArrowKey(key) =>
            /\ newValue' = CyclicEnabled(options(variant), currentVersion,
                                         IF key = "ArrowDown" THEN 1 ELSE -1)
            /\ \E i \in 1..Len(options(variant)) :
                   /\ options(variant)[i].value = newValue'
                   /\ ~options(variant)[i].disabled]_vars

\* C10 witness: revision B on a v1 page: the current option v1 is disabled,
\* an arrow key has picked v0, the only enabled option, and navigation to
\* the base path is requested.
C10_Witness ==
    /\ variant = "B"
    /\ currentVersion = "v1"
    /\ newValue = "v0"
    /\ ~isOpen
    /\ navRequest = NavTo(<<"/docs">>)

\* C11: choosing the version that is the current one, by a click on its
\* option or by an arrow key that picks it, issues no navigation request
\* and leaves the path and the current version as they were.
C11_SameVersionNoOp ==
    /\ [][\A value \in Versions :
            (ClickOption(value) /\ value = currentVersion) =>
                /\ ~navRequest'.pending
                /\ UNCHANGED <<navRequest, pathname, currentVersion>>]_vars
    /\ [][((\E k \in ArrowKeys : HandleArrowKey(k))
              /\ newValue' = currentVersion) =>
                /\ ~navRequest'.pending
                /\ UNCHANGED <<navRequest, pathname, currentVersion>>]_vars

\* C11 witness: on a v1 page of revision A the option v1 has been clicked in
\* the open menu: the menu is closed, nothing is requested, the page and
\* the version are the same.
C11_Witness ==
    /\ variant = "A"
    /\ clicked = "v1"
    /\ currentVersion = "v1"
    /\ pathname = <<"/docs", "-v", "1">>
    /\ ~isOpen
    /\ ~effectPending
    /\ navRequest = NoNav

\* The path a selection of the enabled option value is to lead to from
\* path: in revisions A and C the rewritten path, in revision B the bare
\* root.
ExpectedTarget(v, path, value) ==
    IF v = "B"
    THEN IF \E i \in 1..Len(path) : path[i] = "/examples"
         THEN <<"/examples">> ELSE <<"/docs">>
    ELSE computeTargetPath(path, value)

\* C12: choosing an enabled version other than the current one, by a click
\* or by an arrow key, on a path under a known root, takes the component
\* from no pending request to one pending full-page navigation request
\* (one assignment to window.location.href), whose address is the computed
\* target path, and leaves the menu closed.
C12_NavigatesOnce ==
    /\ [][\A value \in Versions :
            (/\ ClickOption(value)
             /\ value /= currentVersion
             /\ ~DisabledOption(variant, value)
             /\ HasRoot(pathname)) =>
                /\ ~navRequest.pending
                /\ navRequest' = NavTo(ExpectedTarget(variant, pathname, value))
                /\ ~isOpen'
                /\ UNCHANGED <<pathname, currentVersion>>]_vars
    /\ [][((\E k \in ArrowKeys : HandleArrowKey(k))
              /\ newValue' /= currentVersion
              /\ HasRoot(pathname)) =>
                /\ ~navRequest.pending
                /\ navRequest' = NavTo(ExpectedTarget(variant, pathname, newValue'))
                /\ ~isOpen'
                /\ UNCHANGED <<pathname, currentVersion>>]_vars

\* C12 witness: on /docs/foo of revision A the option v1 has been clicked:
\* one request, to /docs-v1/foo, is pending and the menu is closed.
C12_Witness ==
    /\ variant = "A"
    /\ clicked = "v1"
    /\ currentVersion = "v0"
    /\ pathname = <<"/docs", "/foo">>
    /\ navRequest = NavTo(<<"/docs", "-v", "1", "/foo">>)
    /\ ~isOpen

\* C13: Escape in the open menu closes the menu and puts the focus on the
\* trigger; it issues no navigation request and changes neither the current
\* version nor the path.
C13_EscapeCloses ==
    [][HandleEscape =>
          /\ isOpen
          /\ ~isOpen'
          /\ focus' = "trigger"
          /\ ~navRequest'.pending
          /\ UNCHANGED <<navRequest, currentVersion, pathname>>]_vars

\* C13 witness: Escape has been pressed in the open menu on a v1 page: the
\* menu is closed, the focus is on the trigger, nothing is requested.
C13_Witness ==
    /\ lastKey = "Escape"
    /\ ~isOpen
    /\ focus = "trigger"
    /\ currentVersion = "v1"
    /\ pathname = <<"/examples", "-v", "1">>
    /\ navRequest = NoNav

\* C14: a mousedown outside the component while the menu is open closes
\* the menu and changes neither the current version nor the path nor the
\* navigation request; a mousedown inside the component leaves the menu
\* open (and changes none of these either).
C14_OutsideCloses ==
    /\ [][ClickOutside =>
            /\ isOpen
            /\ ~isOpen'
            /\ ~navRequest'.pending
            /\ UNCHANGED <<navRequest, currentVersion, pathname>>]_vars
    /\ [][MouseDownInside =>
            /\ isOpen
            /\ isOpen'
            /\ UNCHANGED <<navRequest, currentVersion, pathname>>]_vars

\* C14 witness: the last event was a mousedown inside the component and
\* the menu is still open.
C14_Witness ==
    /\ mouseTarget = "inside"
    /\ isOpen
    /\ variant = "B"
    /\ navRequest = NoNav

\* The version that the marker substrings give for a path: v1 when
\* "/examples-v1" or "/docs-v1" occurs in it, v0 otherwise
MarkedV1(p) ==
    \E i \in 1..Len(p) :
        /\ i + 2 <= Len(p)
        /\ p[i] \in {"/examples", "/docs"}
        /\ p[i + 1] = "-v"
        /\ p[i + 2] = "1"

\* C15: once the detection step has run for the current path, the current
\* version is v1 if the path holds the substring /examples-v1 or /docs-v1
\* and v0 otherwise, whatever it was before; the step itself sets it from
\* the path alone.
C15_VersionFromPath ==
    /\ [](~effectPending =>
            currentVersion = IF MarkedV1(pathname) THEN "v1" ELSE "v0")
    /\ [][DetectEffect =>
            currentVersion' = IF MarkedV1(pathname) THEN "v1" ELSE "v0"]_vars
    /\ [][(pathname' /= pathname) => effectPending']_vars

\* C15 witness: in revision A the option v1 was clicked without a request
\* following, so the version was v1 then; the router has since moved to
\* /docs and the detection step has run: the version is v0.
C15_Witness ==
    /\ variant = "A"
    /\ clicked = "v1"
    /\ navRequest = NoNav
    /\ pathname = <<"/docs">>
    /\ ~effectPending
    /\ currentVersion = "v0"

\* The target path of the click handler and of the arrow-key handler of
\* revision v
ClickTarget(v, path, value) ==
    IF v = "B" THEN baseTargetPath(path, value) ELSE computeTargetPath(path, value)

KeyTarget(v, path, value) ==
    IF v = "B" THEN keyBaseTargetPath(path, value) ELSE keyTargetPath(path, value)

\* C20: for the current path and every target version the arrow-key handler
\* computes the target path that the click handler computes; and an arrow
\* key that picks the version nv leaves the navigation request and the menu
\* as a click on the option nv would.
C20_KeySameAsClick ==
    /\ [](\A value \in Versions :
            KeyTarget(variant, pathname, value)
                = ClickTarget(variant, pathname, value))
    /\ [][\A k \in ArrowKeys :
            HandleArrowKey(k) =>
                /\ ~isOpen'
                /\ navRequest' =
                     IF newValue' = currentVersion THEN navRequest
                     ELSE NavTo(ClickTarget(variant, pathname, newValue'))]_vars

\* C20 witness: on a path that holds both roots an arrow key has picked v1
\* in revision A; the request goes where the click handler would send it.
C20_Witness ==
    /\ variant = "A"
    /\ lastKey \in ArrowKeys
    /\ newValue = "v1"
    /\ pathname = <<"/docs", "/examples", "/foo">>
    /\ navRequest = NavTo(<<"/docs", "/examples", "-v", "1", "/foo">>)
    /\ navRequest.href = computeTargetPath(pathname, "v1")

\* The bare root of a path that holds a known root
BaseOf(p) ==
    IF \E i \in 1..Len(p) : p[i] = "/examples" THEN <<"/examples">>
    ELSE <<"/docs">>

\* C22: in revision B a switch to v0, by a click or by an arrow key, asks
\* for the bare root and nothing after it: /examples when the current path
\* holds /examples, otherwise /docs; the current path holds one of the two
\* whenever the switch is possible.
C22_BasePathOnly ==
    /\ [][(variant = "B" /\ ClickOption("v0") /\ currentVersion /= "v0") =>
            /\ HasRoot(pathname)
            /\ navRequest' = NavTo(BaseOf(pathname))
            /\ Len(navRequest'.href) = 1]_vars
    /\ [][(/\ variant = "B"
           /\ \E k \in ArrowKeys : HandleArrowKey(k)
           /\ newValue' = "v0"
           /\ currentVersion /= "v0") =>
            /\ HasRoot(pathname)
            /\ navRequest' = NavTo(BaseOf(pathname))
            /\ Len(navRequest'.href) = 1]_vars

\* C22 witness: in revision B, on /examples-v1/foo, v0 has been clicked: the
\* request goes to /examples, the segment /foo is dropped.
C22_Witness ==
    /\ variant = "B"
    /\ clicked = "v0"
    /\ currentVersion = "v1"
    /\ pathname = <<"/examples", "-v", "1", "/foo">>
    /\ navRequest = NavTo(<<"/examples">>)

\* A key press (arrow or Escape) or a mousedown outside the component,
\* heard by a listener or not
KeyOrOutsideEvent ==
    \/ \E k \in ArrowKeys : HandleArrowKey(k)
    \/ HandleEscape
    \/ ClickOutside
    \/ \E k \in ArrowKeys \cup {"Escape"} : KeyDownUnheard(k)
    \/ MouseDownUnheard

\* C26: while the menu is closed a key press (arrow or Escape) or a
\* mousedown outside the component changes neither the menu state nor the
\* current version nor the path and issues no navigation request; the menu
\* opens by a click on the trigger only, and that click toggles it.
C26_ClosedMenuIgnoresEvents ==
    /\ [][(~isOpen /\ HasMenu(variant) /\ KeyOrOutsideEvent) =>
            /\ UNCHANGED <<isOpen, currentVersion, pathname, navRequest>>
            /\ ~navRequest'.pending]_vars
    /\ [][(~isOpen /\ isOpen') => ToggleTrigger]_vars
    /\ [][ToggleTrigger => isOpen' = ~isOpen]_vars

\* C26 witness: ArrowDown has gone down with the menu closed: no new value
\* was computed, the menu is closed, nothing is requested.
C26_Witness ==
    /\ variant = "A"
    /\ lastKey = "ArrowDown"
    /\ newValue = "none"
    /\ ~isOpen
    /\ currentVersion = "v0"
    /\ pathname = <<"/docs", "/foo">>
    /\ navRequest = NoNav

\* C28 as stated: in every reachable state, the first render included, the
\* version shown is the version detected from the current path.
C28_DisplayedIsDetected ==
    currentVersion = DetectVersion(pathname)

\* A handler of a user event on the selector
SelectionHandler ==
    \/ \E value \in Versions : ClickOption(value)
    \/ \E k \in ArrowKeys : HandleArrowKey(k)
    \/ HandleEscape
    \/ ClickOutside
    \/ MouseDownInside
    \/ ToggleTrigger

\* C29: no handler of a user event changes the current version; it is
\* changed by the detection step only (a page loaded anew starts a new
\* component, with the initial version).
C29_OnlyDetectionWrites ==
    /\ [][SelectionHandler => currentVersion' = currentVersion]_vars
    /\ [][(currentVersion' /= currentVersion) =>
            (DetectEffect \/ LoadPage)]_vars

\* C29 witness: on a v1 page of revision A the option v0 has been clicked:
\* the request is pending and the current version is still v1.
C29_Witness ==
    /\ variant = "A"
    /\ clicked = "v0"
    /\ currentVersion = "v1"
    /\ pathname = <<"/docs", "-v", "1">>
    /\ navRequest = NavTo(<<"/docs">>)


(***************************************************************************)
(* Path rewriter and detection (specification SpecRewrite)                 *)
(***************************************************************************)
\* C27 as stated: whenever a path that holds a known root is rewritten to a
\* version other than the one detected from it, the version detected from
\* the result is the version chosen.
C27_DetectedAfterSwitch ==
    \A k \in 1..Len(rwTrail) :
        (HasRoot(rwHist[k]) /\ DetectVersion(rwHist[k]) /= rwTrail[k])
            => DetectVersion(rwHist[k + 1]) = rwTrail[k]


(***************************************************************************)
(* RadioCards: properties (specification SpecRadio)                        *)
(***************************************************************************)
\* C23: a controlled root shows as checked the item whose value is the
\* supplied value and no other; a change event on an enabled item leaves
\* the internal value of a controlled root as it was, sets the internal
\* value of an uncontrolled root to the value of the item (which is then
\* the checked one), and calls the supplied onValueChange once, with that
\* value.
C23_ControlledUncontrolled ==
    /\ [](rcControlled /= Null =>
            \A v \in RcItems : rcIsChecked(v) <=> (rcControlled = Some(v)))
    /\ [][\A value \in RcItems :
            (ItemChange(value) /\ value \notin rcDisabled) =>
                /\ (rcControlled /= Null => rcUncontrolled' = rcUncontrolled)
                /\ (rcControlled = Null =>
                        /\ rcUncontrolled' = Some(value)
                        /\ \A v \in RcItems : rcIsChecked(v)' <=> (v = value))
                /\ (rcHasCallback => rcCalls' = Append(rcCalls, value))
                /\ (~rcHasCallback => rcCalls' = rcCalls)]_vars

\* C23 witness: a root controlled with the value x (default value ""): the
\* enabled item y has been chosen; onValueChange was called once with y,
\* the internal value is still "" and x is still the checked item.
C23_Witness ==
    /\ rcControlled = Some("x")
    /\ rcUncontrolled = Some("")
    /\ rcHasCallback
    /\ rcLast = [value |-> "y", disabled |-> FALSE]
    /\ rcCalls = <<"y">>
    /\ rcIsChecked("x")
    /\ ~rcIsChecked("y")

\* C24: a change event on a disabled item calls onValueChange not at all,
\* leaves the internal value as it was, and leaves every item checked or
\* unchecked as before.
C24_DisabledItemInert ==
    [][\A value \in RcItems :
          (ItemChange(value) /\ value \in rcDisabled) =>
              /\ UNCHANGED <<rcCalls, rcUncontrolled, rcControlled>>
              /\ \A v \in RcItems : rcIsChecked(v)' <=> rcIsChecked(v)]_vars

\* C24 witness: an uncontrolled root with x checked: the disabled item y
\* has received a change event; no call was made and x is still checked.
C24_Witness ==
    /\ rcControlled = Null
    /\ rcUncontrolled = Some("x")
    /\ rcHasCallback
    /\ rcLast = [value |-> "y", disabled |-> TRUE]
    /\ rcCalls = <<>>
    /\ rcIsChecked("x")


(***************************************************************************)
(* GitHubStar: properties (specifications SpecStar and SpecFormat)         *)
(***************************************************************************)
FormatChars == {DigitChars[i] : i \in 1..10} \cup {".", "k"}

DigitValue(c) == CHOOSE d \in 0..9 : DigitChars[d + 1] = c

\* A decimal numeral: digits only, no leading zero but for "0"
IsNumeral(t) ==
    /\ Len(t) >= 1
    /\ \A i \in 1..Len(t) : \E d \in 0..9 : DigitChars[d + 1] = t[i]
    /\ (Len(t) > 1 => t[1] /= "0")

RECURSIVE NumeralValue(_)
NumeralValue(t) ==
    IF t = <<>> THEN 0
    ELSE 10 * NumeralValue(SubSeq(t, 1, Len(t) - 1)) + DigitValue(t[Len(t)])

Distance(a, b) == IF a >= b THEN a - b ELSE b - a

\* C25: formatStars gives "0" for null and NaN (and undefined); for a count
\* n below 1000 the numeral of n; for 1000 <= n <= 9999 a numeral, a point,
\* one digit and "k", naming a multiple of 100 nearest to n; for n >= 10000
\* a numeral and "k", naming a multiple of 1000 nearest to n; and "12k" for
\* 12345.
C25_FormatByRange ==
    fmtText /= <<>> =>
        LET n == fmtCount.n
            L == Len(fmtText)
        IN  /\ (fmtCount.kind /= "number" => fmtText = <<"0">>)
            /\ (fmtCount.kind = "number" /\ n < 1000) =>
                    (IsNumeral(fmtText) /\ NumeralValue(fmtText) = n)
            /\ (fmtCount.kind = "number" /\ 1000 <= n /\ n < 10000) =>
                    /\ L >= 4
                    /\ fmtText[L] = "k"
                    /\ fmtText[L - 2] = "."
                    /\ IsNumeral(<<fmtText[L - 1]>>)
                    /\ IsNumeral(SubSeq(fmtText, 1, L - 3))
                    /\ 2 * Distance(n, 1000 * NumeralValue(SubSeq(fmtText, 1, L - 3))
                                        + 100 * DigitValue(fmtText[L - 1])) <= 100
            /\ (fmtCount.kind = "number" /\ n >= 10000) =>
                    /\ L >= 2
                    /\ fmtText[L] = "k"
                    /\ IsNumeral(SubSeq(fmtText, 1, L - 1))
                    /\ 2 * Distance(n, 1000 * NumeralValue(SubSeq(fmtText, 1, L - 1)))
                          <= 1000
            /\ (fmtCount = Number(12345) => fmtText = <<"1", "2", "k">>)

\* C25 witness: formatStars(12345) has been computed and is "12k"
C25_Witness ==
    /\ fmtCount = Number(12345)
    /\ fmtText = <<"1", "2", "k">>


====
